---- MODULE Spec2Model ----
(***************************************************************************)
(* Model of the FastAPI request handlers of src/src/main.py (chat,         *)
(* upload_and_index_document, delete_document) and of get_rag_chain of     *)
(* src/src/langchain_utils.py.  The stores the handlers call (db_utils,    *)
(* chroma_utils) are external collaborators: each call is one atomic step  *)
(* whose outcome (value returned, or exception raised) is chosen by the    *)
(* environment.                                                            *)
(***************************************************************************)
EXTENDS Integers, Sequences, FiniteSets, TLC

\* ------------------------------------------------------------------ bounds
MaxUploads == 2        \* upload requests received
MaxChats == 2          \* chat requests received

\* Upload requests are served by two handler threads, so that two of them run
\* concurrently; each thread serves one request after the other.
Uploaders == {1, 2}
FileIds == 1..MaxUploads     \* insert_document_record hands out 1, 2, ...

\* ------------------------------------------------------- file names, paths
\* A file name is a sequence of characters.
Filenames ==
  { <<"a", ".", "p", "d", "f">>,
    <<"b", ".", "D", "O", "C", "X">>,
    <<"c", ".", "t", "x", "t">>,
    <<".", "h", "t", "m", "l">> }

LowerChar(c) ==
  CASE c = "D" -> "d"
    [] c = "O" -> "o"
    [] c = "C" -> "c"
    [] c = "X" -> "x"
    [] OTHER -> c

Lower(s) == [i \in 1..Len(s) |-> LowerChar(s[i])]

\* rfind: the last index of character c in s, 0 when there is none
RFind(s, c) ==
  IF \E i \in 1..Len(s) : s[i] = c
    THEN CHOOSE i \in 1..Len(s) : s[i] = c /\ \A j \in (i+1)..Len(s) : s[j] # c
    ELSE 0

\* os.path.splitext(p)[1] for a name without directory separators: the suffix
\* from the last dot on, unless only dots precede that dot
SplitExt(p) ==
  LET dot == RFind(p, ".")
  IN IF dot > 0 /\ \E i \in 1..(dot - 1) : p[i] # "."
       THEN SubSeq(p, dot, Len(p))
       ELSE <<>>

allowed_extensions ==
  { <<".", "p", "d", "f">>, <<".", "d", "o", "c", "x">>, <<".", "h", "t", "m", "l">> }

file_extension(filename) == Lower(SplitExt(filename))

documents_dir == "data/documents"

\* os.path.join(documents_dir, f"temp_{file.filename}")
temp_file_path(filename) == <<documents_dir, <<"t", "e", "m", "p", "_">> \o filename>>

TempPaths == { temp_file_path(f) : f \in Filenames }

\* -------------------------------------------------------------------- state
VARIABLES
  records,     \* Relational Log Store: file_ids of the DocumentRecords
  next_id,     \* Relational Log Store: the next file_id it hands out
  chunks,      \* Document Store: file_ids whose chunks are indexed
  tempfs,      \* data/documents: path -> whose content the file holds (0: absent)
  nuploads,    \* upload requests received so far
  upc,         \* upload request: position in upload_and_index_document
  ufilename,   \* upload request: file.filename
  ufile_id,    \* upload request: file_id (0: not assigned)
  usuccess,    \* upload request: success ("None" until index returns)
  ustatus,     \* upload request: HTTP status of the response (0: none yet)
  dpc,         \* delete request: position in delete_document
  dfile_id,    \* delete request: request.file_id
  dchroma,     \* delete request: chroma_delete_success
  ddb,         \* delete request: db_delete_success
  dresp,       \* delete request: the payload returned
  logs,        \* Relational Log Store: the ChatLogEntry rows, in order
  nchats,      \* chat requests received so far
  cpc,         \* chat request: position in chat
  question,    \* chat request: query_input.question
  requested,   \* chat request: query_input.model.value
  session_id,  \* chat request: session_id
  chat_history,\* chat request: chat_history
  hist_failed, \* chat request: get_chat_history raised
  model_value, \* chat request: model_value
  cidx,        \* chat request: index of the next candidate in model_candidates
  attempts,    \* chat request: the candidates invoked so far, with their outcome
  last_error,  \* chat request: last_error
  answer,      \* chat request: answer
  log_calls,   \* chat request: calls of insert_application_logs
  logged,      \* chat request: insert_application_logs stored the entry
  cresp        \* chat request: the response sent

docvars == <<records, next_id, chunks, tempfs, nuploads, upc, ufilename, ufile_id,
             usuccess, ustatus, dpc, dfile_id, dchroma, ddb, dresp>>

chatvars == <<logs, nchats, cpc, question, requested, session_id, chat_history,
              hist_failed, model_value, cidx, attempts, last_error, answer,
              log_calls, logged, cresp>>

vars == <<docvars, chatvars>>

dbvars == <<records, next_id>>
uploadvars == <<nuploads, upc, ufilename, ufile_id, usuccess, ustatus>>
ulocals == <<ufilename, ufile_id, usuccess, ustatus>>
deletevars == <<dpc, dfile_id, dchroma, ddb, dresp>>

NoFilename == <<>>

DocInit ==
  /\ records = {}
  /\ next_id = 1
  /\ chunks = {}
  /\ tempfs = [p \in TempPaths |-> 0]
  /\ nuploads = 0
  /\ upc = [u \in Uploaders |-> "idle"]
  /\ ufilename = [u \in Uploaders |-> NoFilename]
  /\ ufile_id = [u \in Uploaders |-> 0]
  /\ usuccess = [u \in Uploaders |-> "None"]
  /\ ustatus = [u \in Uploaders |-> 0]
  /\ dpc = "idle"
  /\ dfile_id = 0
  /\ dchroma = "None"
  /\ ddb = "None"
  /\ dresp = "None"

\* ------------------------------------------------- the stores' operations
\* insert_document_record(filename) -> file_id
insert_document_record(u) ==
  /\ records' = records \cup {next_id}
  /\ next_id' = next_id + 1
  /\ ufile_id' = [ufile_id EXCEPT ![u] = next_id]

\* delete_document_record(file_id) -> bool, here returning True
delete_document_record(fid) ==
  /\ records' = records \ {fid}
  /\ next_id' = next_id

\* index_document_to_chroma(file_path, file_id) -> bool, here returning True:
\* the content of the file at file_path is split and stored under file_id
index_document_to_chroma(path, fid) ==
  /\ tempfs[path] # 0
  /\ chunks' = chunks \cup {fid}

\* delete_doc_from_chroma(file_id) -> bool, here returning True
delete_doc_from_chroma(fid) ==
  /\ fid \in chunks
  /\ chunks' = chunks \ {fid}

\* --------------------------------------------- upload_and_index_document
\* (mutant) an exception leaves the handler without running the finally clause
OnRaise_NoFinally == "done"

\* where control goes when an exception leaves the try block: the finally clause
OnRaise == "finally"

\* where control goes when the try block is left by return or by raise HTTPException
OnLeave == "finally"

\* lines 96-107: the extension check and the temporary path
UploadStart(u, filename) ==
  /\ upc[u] = "idle"
  /\ nuploads < MaxUploads
  /\ nuploads' = nuploads + 1
  /\ ufilename' = [ufilename EXCEPT ![u] = filename]
  /\ IF file_extension(filename) \notin allowed_extensions
       THEN /\ upc' = [upc EXCEPT ![u] = "done"]
            /\ ustatus' = [ustatus EXCEPT ![u] = 400]
       ELSE /\ upc' = [upc EXCEPT ![u] = "write"]
            /\ ustatus' = ustatus
  /\ UNCHANGED <<dbvars, chunks, tempfs, ufile_id, usuccess, deletevars, chatvars>>

\* lines 111-112: open(temp_file_path, "wb") and shutil.copyfileobj
UploadWrite(u) ==
  /\ upc[u] = "write"
  /\ LET path == temp_file_path(ufilename[u])
     IN \/ /\ tempfs' = [tempfs EXCEPT ![path] = u]        \* written
           /\ upc' = [upc EXCEPT ![u] = "insert"]
           /\ ustatus' = ustatus
        \/ /\ tempfs' = [tempfs EXCEPT ![path] = u]        \* copyfileobj raises
           /\ upc' = [upc EXCEPT ![u] = OnRaise]
           /\ ustatus' = [ustatus EXCEPT ![u] = 500]
        \/ /\ tempfs' = tempfs                             \* open raises
           /\ upc' = [upc EXCEPT ![u] = OnRaise]
           /\ ustatus' = [ustatus EXCEPT ![u] = 500]
  /\ UNCHANGED <<nuploads, dbvars, chunks, ufilename, ufile_id, usuccess, deletevars, chatvars>>

\* line 114: file_id = insert_document_record(file.filename)
UploadInsert(u) ==
  /\ upc[u] = "insert"
  /\ \/ /\ insert_document_record(u)
        /\ upc' = [upc EXCEPT ![u] = "index"]
        /\ ustatus' = ustatus
     \/ /\ UNCHANGED <<dbvars, ufile_id>>                  \* the store raises
        /\ upc' = [upc EXCEPT ![u] = OnRaise]
        /\ ustatus' = [ustatus EXCEPT ![u] = 500]
  /\ UNCHANGED <<nuploads, chunks, tempfs, ufilename, usuccess, deletevars, chatvars>>

\* (mutant) the test on success is inverted
AfterIndex_Inverted(success) == IF success = "True" THEN "rollback" ELSE "return"

\* lines 117-121: if success: return {...} else: roll the record back
AfterIndex(success) == IF success = "True" THEN "return" ELSE "rollback"

\* lines 115-118: success = index_document_to_chroma(...); if success: return
UploadIndex(u) ==
  /\ upc[u] = "index"
  /\ \/ /\ \E success \in {"True", "False"} :
             /\ IF success = "True"
                  THEN index_document_to_chroma(temp_file_path(ufilename[u]), ufile_id[u])
                  ELSE chunks' = chunks
             /\ usuccess' = [usuccess EXCEPT ![u] = success]
             /\ IF AfterIndex(success) = "return"
                  THEN /\ upc' = [upc EXCEPT ![u] = OnLeave]
                       /\ ustatus' = [ustatus EXCEPT ![u] = 200]
                  ELSE /\ upc' = [upc EXCEPT ![u] = "rollback"]
                       /\ ustatus' = ustatus
     \/ /\ chunks' = chunks                                \* raises
        /\ usuccess' = usuccess
        /\ upc' = [upc EXCEPT ![u] = OnRaise]
        /\ ustatus' = [ustatus EXCEPT ![u] = 500]
  /\ UNCHANGED <<nuploads, dbvars, tempfs, ufilename, ufile_id, deletevars, chatvars>>

\* lines 120-121: delete_document_record(file_id); raise HTTPException(500)
UploadRollback(u) ==
  /\ upc[u] = "rollback"
  /\ \/ /\ delete_document_record(ufile_id[u])             \* returns True
        /\ upc' = [upc EXCEPT ![u] = OnLeave]
     \/ /\ UNCHANGED dbvars                                \* returns False
        /\ upc' = [upc EXCEPT ![u] = OnLeave]
     \/ /\ UNCHANGED dbvars                                \* raises
        /\ upc' = [upc EXCEPT ![u] = OnRaise]
  /\ ustatus' = [ustatus EXCEPT ![u] = 500]
  /\ UNCHANGED <<nuploads, chunks, tempfs, ufilename, ufile_id, usuccess, deletevars, chatvars>>

\* line 123: if os.path.exists(temp_file_path)
UploadFinally(u) ==
  /\ upc[u] = "finally"
  /\ upc' = [upc EXCEPT ![u] =
       IF tempfs[temp_file_path(ufilename[u])] # 0 THEN "remove" ELSE "done"]
  /\ UNCHANGED <<nuploads, dbvars, chunks, tempfs, ufilename, ufile_id, usuccess, ustatus,
                 deletevars, chatvars>>

\* line 124: os.remove(temp_file_path); FileNotFoundError when it is gone
UploadRemove(u) ==
  /\ upc[u] = "remove"
  /\ LET path == temp_file_path(ufilename[u])
     IN IF tempfs[path] # 0
          THEN /\ tempfs' = [tempfs EXCEPT ![path] = 0]
               /\ ustatus' = ustatus
          ELSE /\ tempfs' = tempfs
               /\ ustatus' = [ustatus EXCEPT ![u] = 500]
  /\ upc' = [upc EXCEPT ![u] = "done"]
  /\ UNCHANGED <<nuploads, dbvars, chunks, ufilename, ufile_id, usuccess, deletevars, chatvars>>

\* the response is sent; the thread is free for the next upload request
UploadReturn(u) ==
  /\ upc[u] = "done"
  /\ upc' = [upc EXCEPT ![u] = "idle"]
  /\ ufilename' = [ufilename EXCEPT ![u] = NoFilename]
  /\ ufile_id' = [ufile_id EXCEPT ![u] = 0]
  /\ usuccess' = [usuccess EXCEPT ![u] = "None"]
  /\ ustatus' = [ustatus EXCEPT ![u] = 0]
  /\ UNCHANGED <<dbvars, chunks, tempfs, nuploads, deletevars, chatvars>>

\* ------------------------------------------------------- delete_document
\* Delete requests are served one after the other, without bound.

\* (mutant) the record is deleted whatever the Document Store answered
ShouldDeleteRecord_Always(chroma_delete_success) == TRUE

\* line 136: if chroma_delete_success
ShouldDeleteRecord(chroma_delete_success) == chroma_delete_success = "True"

\* line 134: chroma_delete_success = delete_doc_from_chroma(request.file_id)
DeleteChroma(fid) ==
  /\ dpc = "idle"
  /\ dfile_id' = fid
  /\ \E outcome \in {"True", "False", "raise"} :
       /\ IF outcome = "True"
            THEN delete_doc_from_chroma(fid)
            ELSE chunks' = chunks
       /\ dchroma' = (IF outcome = "raise" THEN "None" ELSE outcome)
       /\ IF outcome = "raise"
            THEN dpc' = "done" /\ dresp' = "exception"
            ELSE IF ShouldDeleteRecord(outcome)
                   THEN dpc' = "db" /\ dresp' = dresp
                   ELSE dpc' = "done" /\ dresp' = "error_chroma"
  /\ UNCHANGED <<dbvars, tempfs, uploadvars, ddb, chatvars>>

\* lines 137-141: db_delete_success = delete_document_record(request.file_id)
DeleteDb ==
  /\ dpc = "db"
  /\ \/ /\ delete_document_record(dfile_id)                \* returns True
        /\ ddb' = "True"
        /\ dresp' = "message"
     \/ /\ UNCHANGED dbvars                                \* returns False
        /\ ddb' = "False"
        /\ dresp' = "error_db"
     \/ /\ UNCHANGED dbvars                                \* raises
        /\ ddb' = ddb
        /\ dresp' = "exception"
  /\ dpc' = "done"
  /\ UNCHANGED <<chunks, tempfs, uploadvars, dfile_id, dchroma, chatvars>>

\* the response is sent; the handler is free for the next delete request
DeleteReturn ==
  /\ dpc = "done"
  /\ dpc' = "idle"
  /\ dfile_id' = 0
  /\ dchroma' = "None"
  /\ ddb' = "None"
  /\ dresp' = "None"
  /\ UNCHANGED <<dbvars, chunks, tempfs, uploadvars, chatvars>>

\* ------------------------------------------------------------------ chat
\* Chat requests are served one after the other.
SupportedModel == "gemini-2.0-flash"

\* query_input.model is an enumeration; one supported value, one value that
\* get_rag_chain would accept, one value nothing accepts
ModelNames == {"gemini-2.0-flash", "gemini-2.0-pro", "gemini-1.5-flash"}

Questions == {"q1", "q2"}
NoSession == <<>>
ClientSessions == {<<"client", 1>>}
Errors == {"quota", "network"}

\* str(uuid.uuid4()): a session id no earlier request was given
uuid4 == <<"uuid", nchats + 1>>

\* langchain_utils.get_rag_chain: the model the chain's llm is built with
allowed_models == {"gemini-2.0-flash", "gemini-2.0-pro"}
model_to_use(model) == IF model \in allowed_models THEN model ELSE "gemini-2.0-flash"

\* (mutant) the requested model is used as it came
ForceSupported_Identity(model) == model

\* main.py lines 39-42: only the supported model is served
ForceSupported(model) == IF model # "gemini-2.0-flash" THEN "gemini-2.0-flash" ELSE model

\* (mutant) no fallback candidate
model_candidates_PrimaryOnly(mv) == <<mv>>

\* main.py lines 45-48
model_candidates(mv) == <<mv, "gemini-2.0-flash">>

\* get_chat_history(session_id): the session's turns as human/ai messages
SessionLogs(sid) == SelectSeq(logs, LAMBDA e : e.session_id = sid)
get_chat_history(sid) ==
  LET turns == SessionLogs(sid)
  IN [i \in 1..(2 * Len(turns)) |->
        IF i % 2 = 1
          THEN [role |-> "human", content |-> turns[(i + 1) \div 2].question]
          ELSE [role |-> "ai", content |-> turns[i \div 2].answer]]

\* (mutant) no except clause around get_chat_history
HistoryErrorFatal_Uncaught == TRUE

\* lines 32-36: the except clause handles a failing get_chat_history
HistoryErrorFatal == FALSE

\* (mutant) no except clause around insert_application_logs
LogErrorFatal_Uncaught == TRUE

\* lines 84-87: the except clause handles a failing insert_application_logs
LogErrorFatal == FALSE

\* What rag_chain.invoke can return: the text the model generates refers to the
\* history only when the chain was given one.
Texts(history) == IF history = <<>> THEN {"A0"} ELSE {"A0", "AH"}
Responses(history) ==
     { [isdict |-> TRUE, answer |-> t, output_text |-> "None", repr |-> "{answer}"] :
         t \in Texts(history) }
  \cup { [isdict |-> TRUE, answer |-> "", output_text |-> t, repr |-> "{output_text}"] :
         t \in Texts(history) }
  \cup { [isdict |-> TRUE, answer |-> "None", output_text |-> "None", repr |-> "{}"] }
  \cup { [isdict |-> FALSE, answer |-> "None", output_text |-> "None", repr |-> t] :
         t \in Texts(history) \cup {""} }

\* Python truth value of a str-or-None, and `a or b`
Truthy(v) == v # "None" /\ v # ""
PyOr(a, b) == IF Truthy(a) THEN a ELSE b

\* lines 65-68
ExtractAnswer(response) ==
  IF response.isdict
    THEN PyOr(PyOr(response.answer, response.output_text), response.repr)
    ELSE response.repr

\* (mutant) `not answer` in place of `answer is None`
AllFailed_Falsy(le, ans) == le # "None" \/ ~Truthy(ans)

\* line 79: if last_error is not None or answer is None
AllFailed(le, ans) == le # "None" \/ ans = "None"

NoResp == [status |-> 0, answer |-> "None", session_id |-> NoSession,
           model |-> "None", detail |-> "None"]

ChatInit ==
  /\ logs = <<>>
  /\ nchats = 0
  /\ cpc = "idle"
  /\ question = "None"
  /\ requested = "None"
  /\ session_id = NoSession
  /\ chat_history = <<>>
  /\ hist_failed = FALSE
  /\ model_value = "None"
  /\ cidx = 1
  /\ attempts = <<>>
  /\ last_error = "None"
  /\ answer = "None"
  /\ log_calls = 0
  /\ logged = FALSE
  /\ cresp = NoResp

\* lines 28-51: session id, history fetch, model selection
ChatBegin(q, sid, m) ==
  /\ cpc = "idle"
  /\ nchats < MaxChats
  /\ nchats' = nchats + 1
  /\ question' = q
  /\ requested' = m
  /\ session_id' = (IF sid # NoSession THEN sid ELSE uuid4)
  /\ \/ /\ chat_history' = get_chat_history(session_id')
        /\ hist_failed' = FALSE
        /\ cpc' = "loop"
        /\ cresp' = cresp
     \/ /\ chat_history' = <<>>                            \* get_chat_history raises
        /\ hist_failed' = TRUE
        /\ IF HistoryErrorFatal
             THEN cpc' = "done" /\ cresp' = [NoResp EXCEPT !.status = 500, !.detail = "history"]
             ELSE cpc' = "loop" /\ cresp' = cresp
  /\ model_value' = ForceSupported(m)
  /\ cidx' = 1
  /\ attempts' = <<>>
  /\ last_error' = "None"
  /\ answer' = "None"
  /\ UNCHANGED <<logs, log_calls, logged, docvars>>

\* lines 53-76: one iteration of the loop over model_candidates
ChatTry ==
  /\ cpc = "loop"
  /\ LET cands == model_candidates(model_value)
         candidate == cands[cidx]
         llm == model_to_use(candidate)
     IN \/ \E response \in Responses(chat_history) :
             /\ answer' = ExtractAnswer(response)
             /\ model_value' = candidate
             /\ last_error' = "None"
             /\ attempts' = Append(attempts, [candidate |-> candidate, llm |-> llm,
                                               history |-> chat_history, ok |-> TRUE,
                                               error |-> "None"])
             /\ cidx' = cidx
             /\ cpc' = "check"                              \* break
        \/ \E e \in Errors :
             /\ last_error' = e
             /\ attempts' = Append(attempts, [candidate |-> candidate, llm |-> llm,
                                               history |-> chat_history, ok |-> FALSE,
                                               error |-> e])
             /\ cidx' = cidx + 1
             /\ cpc' = (IF cidx + 1 > Len(cands) THEN "check" ELSE "loop")
             /\ UNCHANGED <<answer, model_value>>
  /\ UNCHANGED <<logs, nchats, question, requested, session_id, chat_history,
                 hist_failed, log_calls, logged, cresp, docvars>>

\* lines 79-81: raise HTTPException(500) when every candidate failed
ChatCheck ==
  /\ cpc = "check"
  /\ IF AllFailed(last_error, answer)
       THEN /\ cresp' = [NoResp EXCEPT !.status = 500, !.detail = last_error]
            /\ cpc' = "done"
       ELSE /\ cresp' = cresp
            /\ cpc' = "log"
  /\ UNCHANGED <<logs, nchats, question, requested, session_id, chat_history,
                 hist_failed, model_value, cidx, attempts, last_error, answer,
                 log_calls, logged, docvars>>

\* lines 84-91: insert_application_logs, then the response
ChatLog ==
  /\ cpc = "log"
  /\ log_calls' = log_calls + 1
  /\ LET ok == [status |-> 200, answer |-> answer, session_id |-> session_id,
                model |-> model_value, detail |-> "None"]
     IN \/ /\ logs' = Append(logs, [session_id |-> session_id, question |-> question,
                                    answer |-> answer, model |-> model_value])
           /\ logged' = TRUE
           /\ cresp' = ok
        \/ /\ logs' = logs                                  \* the store raises
           /\ logged' = FALSE
           /\ cresp' = (IF LogErrorFatal
                          THEN [NoResp EXCEPT !.status = 500, !.detail = "log"]
                          ELSE ok)
  /\ cpc' = "done"
  /\ UNCHANGED <<nchats, question, requested, session_id, chat_history, hist_failed,
                 model_value, cidx, attempts, last_error, answer, docvars>>

\* the response is sent; the handler is free for the next chat request
ChatReturn ==
  /\ cpc = "done"
  /\ cpc' = "idle"
  /\ question' = "None"
  /\ requested' = "None"
  /\ session_id' = NoSession
  /\ chat_history' = <<>>
  /\ hist_failed' = FALSE
  /\ model_value' = "None"
  /\ cidx' = 1
  /\ attempts' = <<>>
  /\ last_error' = "None"
  /\ answer' = "None"
  /\ log_calls' = 0
  /\ logged' = FALSE
  /\ cresp' = NoResp
  /\ UNCHANGED <<logs, nchats, docvars>>

\* ------------------------------------------------------- specifications
DocNext ==
  \/ \E u \in Uploaders, f \in Filenames : UploadStart(u, f)
  \/ \E u \in Uploaders : UploadWrite(u)
  \/ \E u \in Uploaders : UploadInsert(u)
  \/ \E u \in Uploaders : UploadIndex(u)
  \/ \E u \in Uploaders : UploadRollback(u)
  \/ \E u \in Uploaders : UploadFinally(u)
  \/ \E u \in Uploaders : UploadRemove(u)
  \/ \E u \in Uploaders : UploadReturn(u)
  \/ \E fid \in FileIds : DeleteChroma(fid)
  \/ DeleteDb
  \/ DeleteReturn

ChatNext ==
  \/ \E q \in Questions, sid \in ClientSessions \cup {NoSession}, m \in ModelNames :
       ChatBegin(q, sid, m)
  \/ ChatTry
  \/ ChatCheck
  \/ ChatLog
  \/ ChatReturn

Init == DocInit /\ ChatInit

\* the document endpoints (upload-doc, delete-doc)
SpecDocs == Init /\ [][DocNext]_vars

\* the chat endpoint
SpecChat == Init /\ [][ChatNext]_vars

\* =================================================================== claims
UploadPath(u) == temp_file_path(ufilename[u])
Quiescent == (\A u \in Uploaders : upc[u] \in {"idle", "done"}) /\ dpc \in {"idle", "done"}
SomeSuccess == \E i \in 1..Len(attempts) : attempts[i].ok
NoSuccess == \A i \in 1..Len(attempts) : ~attempts[i].ok

\* C1: when an upload with an allowed extension has ended and
\* index_document_to_chroma returned, the record made by insert_document_record
\* exists iff indexing succeeded: it is gone whenever indexing failed, and it is
\* there (as long as no delete request removed the chunks) when indexing succeeded.
C1_RecordIffIndexed ==
  \A u \in Uploaders :
    (upc[u] = "done" /\ usuccess[u] # "None") =>
      /\ (usuccess[u] = "False" => ufile_id[u] \notin records)
      /\ ((usuccess[u] = "True" /\ ufile_id[u] \in chunks) => ufile_id[u] \in records)

\* C2: a delete request calls delete_document_record only after
\* delete_doc_from_chroma returned success for its file_id; when the Document
\* Store deletion fails the request ends at once with the in-band failure and
\* has not called delete_document_record, so the record is left as it was.
C2_RecordDeletedOnlyAfterStore ==
  /\ (dpc = "db" \/ ddb # "None") => dchroma = "True"
  /\ dchroma = "False" => (dpc = "done" /\ dresp = "error_chroma" /\ ddb = "None")
  /\ dresp \in {"message", "error_db"} => dchroma = "True"

\* C2 witness: the Document Store deletion failed for a file_id that has no
\* chunks there, and its record is still in the Log Store
C2_Witness ==
  /\ dpc = "done" /\ dchroma = "False" /\ dresp = "error_chroma"
  /\ dfile_id \notin chunks /\ dfile_id \in records

\* C3: candidates are invoked in list order, none after a success, and a request
\* fails only after the default candidate was invoked following the failure of
\* the primary one.
C3_FallbackOrder ==
  /\ \A i \in 1..Len(attempts) :
       /\ attempts[i].candidate = model_candidates(ForceSupported(requested))[i]
       /\ i > 1 => ~attempts[i - 1].ok
  /\ (Len(attempts) >= 1 /\ ~attempts[1].ok /\ cpc \in {"check", "log", "done"}) =>
       (Len(attempts) >= 2 /\ attempts[2].candidate = SupportedModel)
  /\ cresp.status = 500 =>
       (Len(attempts) >= 2 /\ attempts[2].candidate = SupportedModel)

\* C3 witness: the primary candidate failed and the default one then succeeded
C3_Witness ==
  /\ cpc = "done" /\ Len(attempts) = 2
  /\ ~attempts[1].ok /\ attempts[2].ok /\ cresp.status = 200

\* C4: a chat request ends with status 500 iff every candidate failed; the
\* failure carries the error of the last candidate invoked, no answer, and
\* insert_application_logs was not called.
C4_FailsIffAllFailed ==
  cpc = "done" =>
    /\ cresp.status \in {200, 500}
    /\ cresp.status = 500 <=> (Len(attempts) = 2 /\ NoSuccess)
    /\ cresp.status = 500 =>
         /\ cresp.detail = attempts[Len(attempts)].error
         /\ cresp.answer = "None"
         /\ log_calls = 0 /\ ~logged

\* C4 witness: both candidates failed, with different errors
C4_Witness ==
  /\ cpc = "done" /\ cresp.status = 500 /\ Len(attempts) = 2
  /\ attempts[1].error = "quota" /\ attempts[2].error = "network"

\* C5: when the requested model is not the supported one, every chain is built
\* with the supported model, and the response and the ChatLogEntry carry the
\* supported model, never the requested value.
C5_UnsupportedDowngraded ==
  (requested # "None" /\ requested # SupportedModel) =>
    /\ \A i \in 1..Len(attempts) :
         attempts[i].candidate = SupportedModel /\ attempts[i].llm = SupportedModel
    /\ cresp.status = 200 => (cresp.model = SupportedModel /\ cresp.model # requested)
    /\ logged => logs[Len(logs)].model = SupportedModel

\* C5 witness: a request for gemini-2.0-pro was answered and logged
C5_Witness ==
  /\ cpc = "done" /\ requested = "gemini-2.0-pro" /\ cresp.status = 200 /\ logged

\* C6: when get_chat_history fails, the chain is invoked, with an empty history;
\* the request ends as a request of a session without turns does: 200 iff some
\* candidate succeeded, with an answer that rests on no history, and otherwise
\* the candidates' error, never the history error.
C6_HistoryFailureNotSurfaced ==
  hist_failed =>
    /\ chat_history = <<>>
    /\ \A i \in 1..Len(attempts) : attempts[i].history = <<>>
    /\ cpc = "done" =>
         /\ Len(attempts) >= 1
         /\ cresp.status = 200 <=> SomeSuccess
         /\ cresp.status = 200 =>
              cresp.answer \in { ExtractAnswer(r) : r \in Responses(<<>>) }
         /\ cresp.status # 200 => cresp.detail \in Errors

\* C6 witness: the session has turns in the Log Store, fetching them failed, and
\* the request was answered
C6_Witness ==
  /\ cpc = "done" /\ hist_failed /\ cresp.status = 200
  /\ SessionLogs(session_id) # <<>>

\* C7: when some candidate succeeded, insert_application_logs is called exactly
\* once, with (session_id, question, answer, model used), and the response is
\* {answer, session_id, model used} with status 200 whether or not that call
\* succeeded.
C7_LogBestEffort ==
  /\ cpc = "log" => log_calls = 0
  /\ (cpc = "done" /\ SomeSuccess) =>
       /\ log_calls = 1
       /\ cresp = [status |-> 200, answer |-> answer, session_id |-> session_id,
                   model |-> attempts[Len(attempts)].candidate, detail |-> "None"]
       /\ answer # "None"
       /\ logged =>
            logs[Len(logs)] = [session_id |-> session_id, question |-> question,
                               answer |-> cresp.answer, model |-> cresp.model]

\* C7 witness: a candidate succeeded, the Log Store refused the entry, and the
\* response is the answer
C7_Witness ==
  /\ cpc = "done" /\ SomeSuccess /\ ~logged /\ log_calls = 1 /\ cresp.status = 200

\* C8 (as claimed), for the file_id of an upload that succeeded: between
\* operations, its record exists iff its chunks are indexed.
C8_RecordIffChunks ==
  \A u \in Uploaders :
    (Quiescent /\ upc[u] = "done" /\ usuccess[u] = "True") =>
      (ufile_id[u] \in records <=> ufile_id[u] \in chunks)

\* C8 (amended): at every moment, a file_id whose chunks are indexed in the
\* Document Store has a DocumentRecord in the Log Store.
C8_ChunksHaveRecord == \A fid \in FileIds : fid \in chunks => fid \in records

\* C8 witness: after an upload that succeeded and a delete request that failed
\* in the Log Store, one file_id has record and chunks, another a record only
C8_Witness ==
  /\ Quiescent /\ dpc = "done" /\ dresp = "error_db"
  /\ \E f \in FileIds : f \in chunks /\ f \in records
  /\ \E f \in FileIds : f \in records /\ f \notin chunks

\* C9: when an upload request ends, no file holding what it wrote is left; and
\* at the moment the finally clause ends, there is no file at its temporary path.
C9_TempFileRemoved ==
  [][\A u \in Uploaders :
       /\ upc'[u] = "done" => \A p \in TempPaths : tempfs'[p] # u
       /\ (upc[u] \in {"finally", "remove"} /\ upc'[u] = "done") =>
            tempfs'[temp_file_path(ufilename[u])] = 0]_vars

\* C9 witness: index_document_to_chroma raised after the file was written and
\* the record inserted, and the request has ended
C9_Witness ==
  \E u \in Uploaders :
    /\ upc[u] = "done" /\ ustatus[u] = 500
    /\ ufile_id[u] # 0 /\ usuccess[u] = "None"
    /\ tempfs[UploadPath(u)] = 0

\* C10: the temporary file a request hands to index_document_to_chroma holds
\* what that request wrote.
C10_OwnTempFile ==
  \A u \in Uploaders : upc[u] = "index" => tempfs[UploadPath(u)] = u

====
